---------------------------- MODULE Spec2Model ----------------------------
(***************************************************************************)
(* Model of the circular "mixer" of src/src/day_20.rs: a ring of nodes     *)
(* held in one vector and linked by index (prev / next), relocated in      *)
(* input order by Mixer::mix and queried relative to the zero-valued node  *)
(* by Mixer::get_at_index.  The two drivers problem_1 and problem_2 and a  *)
(* caller that uses the Mixer methods in any order are modelled.           *)
(*                                                                         *)
(* Vector indices are 0-based as in the source: `nodes` is a function on   *)
(* 0 .. len-1.  An i64 is held as sign and magnitude, the magnitude as a   *)
(* little-endian sequence of base-10000 limbs without leading zero limbs,  *)
(* because the values of problem_2 exceed the 32-bit integers of TLC.      *)
(*                                                                         *)
(* Further specifications model the item flags of src/src/day_3.rs         *)
(* (SpecDay3), the UniqueSequenceFinder of src/src/day_6.rs (SpecDay6),    *)
(* the rope of src/src/day_9.rs (SpecDay9) and the dispatcher `run` of     *)
(* src/src/helpers.rs with the days registered in src/src/main.rs          *)
(* (SpecCli).  Each has a variable of its own and leaves the others idle.  *)
(***************************************************************************)
EXTENDS Integers, Sequences, FiniteSets, TLC

VARIABLES
    caller,   \* who uses the Mixer: "problem_1", "problem_2" or "any"
    input,    \* the parsed input lines, a sequence of i64
    pc,       \* "start", "ready", "mix", "done" or "panic"
    nodes,    \* Mixer.nodes
    zero,     \* Mixer.zero
    mix_i,    \* loop variable of Mixer::mix
    rounds,   \* completed calls of Mixer::mix
    pre,      \* Mixer.nodes at entry to the running (or last) call of mix
    last_k,   \* argument of the last call of get_at_index, -1 if none
    result,   \* value returned by the last call of get_at_index
    queried,  \* elements of [1000, 2000, 3000] consumed by the sum
    answer,   \* value returned by problem_1 / problem_2
    panic,    \* which operation panicked, "" if none
    hops,     \* iterations of the last walk loop of the running call, -1 if none
    day3,     \* the call of a function of day_3.rs: operation, items, results
    day6,     \* the UniqueSequenceFinder of day_6.rs and what was appended
    day9,     \* the knots of the rope of day_9.rs
    cli       \* the dispatcher `run` of helpers.rs and the EXAMPLE flag

mixerVars == <<caller, input, pc, nodes, zero, mix_i, rounds, pre, last_k,
               result, queried, answer, panic, hops>>

vars == <<mixerVars, day3, day6, day9, cli>>

---------------------------------------------------------------------------
(* Bounds of the model. *)

MaxLen == 3        \* longest enumerated input
MaxVal == 2        \* enumerated input values are -MaxVal .. MaxVal
MaxRounds == 2     \* calls of mix made by the caller "any"
MaxOffset == 5     \* offsets 0 .. MaxOffset queried by the caller "any"
MaxItems == 4      \* longest enumerated line of day_3.rs
MaxAppends == 6    \* letters appended to the finder of day_6.rs
MaxLetter == 4     \* appended letters are 1 .. MaxLetter and 26
MaxMoves == 10     \* steps of the head of the rope of day_9.rs
MaxDayFlags == 2   \* day flags given to the dispatcher at once

---------------------------------------------------------------------------
(* i64 / usize arithmetic on limbs. *)

Base == 10000

RECURSIVE MagOf(_)
MagOf(n) == IF n = 0 THEN <<>> ELSE <<n % Base>> \o MagOf(n \div Base)

I64(n) == [neg |-> n < 0, mag |-> MagOf(IF n < 0 THEN -n ELSE n)]

I64Zero == [neg |-> FALSE, mag |-> <<>>]

RECURSIVE MagNorm(_)
MagNorm(a) ==
    IF a = <<>> THEN <<>>
    ELSE IF a[Len(a)] = 0 THEN MagNorm(SubSeq(a, 1, Len(a) - 1))
    ELSE a

RECURSIVE MagAddC(_, _, _)
MagAddC(a, b, c) ==
    IF a = <<>> /\ b = <<>> THEN (IF c = 0 THEN <<>> ELSE <<c>>)
    ELSE LET x == IF a = <<>> THEN 0 ELSE Head(a)
             y == IF b = <<>> THEN 0 ELSE Head(b)
             s == x + y + c
         IN  <<s % Base>> \o MagAddC(IF a = <<>> THEN <<>> ELSE Tail(a),
                                     IF b = <<>> THEN <<>> ELSE Tail(b),
                                     s \div Base)

MagAdd(a, b) == MagAddC(a, b, 0)

\* a - b - c for a >= b + c, limb by limb with borrow
RECURSIVE MagSubB(_, _, _)
MagSubB(a, b, c) ==
    IF a = <<>> THEN <<>>
    ELSE LET y == IF b = <<>> THEN 0 ELSE Head(b)
             d == Head(a) - y - c
         IN  <<(d + Base) % Base>> \o
             MagSubB(Tail(a), IF b = <<>> THEN <<>> ELSE Tail(b),
                     IF d < 0 THEN 1 ELSE 0)

MagSub(a, b) == MagNorm(MagSubB(a, b, 0))

\* a < b on normalised magnitudes
RECURSIVE MagLess(_, _)
MagLess(a, b) ==
    IF Len(a) # Len(b) THEN Len(a) < Len(b)
    ELSE IF a = <<>> THEN FALSE
    ELSE IF a[Len(a)] # b[Len(b)] THEN a[Len(a)] < b[Len(b)]
    ELSE MagLess(SubSeq(a, 1, Len(a) - 1), SubSeq(b, 1, Len(b) - 1))

RECURSIVE MagScaleC(_, _, _)
MagScaleC(a, d, c) ==
    IF a = <<>> THEN MagOf(c)
    ELSE LET p == Head(a) * d + c
         IN  <<p % Base>> \o MagScaleC(Tail(a), d, p \div Base)

RECURSIVE MagMul(_, _)
MagMul(a, b) ==
    IF a = <<>> \/ b = <<>> THEN <<>>
    ELSE MagNorm(MagAdd(MagScaleC(b, Head(a), 0),
                        IF Tail(a) = <<>> THEN <<>>
                        ELSE <<0>> \o MagMul(Tail(a), b)))

\* the remainder of a magnitude by a small positive modulus
RECURSIVE MagMod(_, _)
MagMod(a, m) ==
    IF a = <<>> THEN 0
    ELSE (MagMod(Tail(a), m) * (Base % m) + Head(a)) % m

I64Mul(x, y) ==
    LET m == MagMul(x.mag, y.mag)
    IN  [neg |-> (m # <<>>) /\ (x.neg # y.neg), mag |-> m]

I64Add(x, y) ==
    IF x.neg = y.neg THEN [neg |-> x.neg, mag |-> MagAdd(x.mag, y.mag)]
    ELSE IF x.mag = y.mag THEN I64Zero
    ELSE IF MagLess(x.mag, y.mag)
         THEN [neg |-> y.neg, mag |-> MagSub(y.mag, x.mag)]
         ELSE [neg |-> x.neg, mag |-> MagSub(x.mag, y.mag)]

\* i64::MIN = -2^63, and 2^64
I64Min == [neg |-> TRUE, mag |-> <<5808, 5477, 368, 3372, 922>>]
TwoTo64 == <<1616, 955, 737, 6744, 1844>>

\* `-x` overflows for i64::MIN only: a build with overflow checks panics,
\* a build without them wraps to i64::MIN.
NegOverflows(x) == x = I64Min

\* `-x` where it does not panic
I64Neg(x) ==
    IF x.mag = <<>> \/ NegOverflows(x) THEN x ELSE [x EXCEPT !.neg = ~x.neg]

I64IsNeg(x) == x.neg
I64IsPos(x) == ~x.neg /\ x.mag # <<>>

\* `as usize` of an i64 with a usize of 64 bits: the value modulo 2^64
AsUsize(x) == IF x.neg THEN MagSub(TwoTo64, x.mag) ELSE x.mag

---------------------------------------------------------------------------
(* Inputs. *)

Example == <<I64(1), I64(2), I64(-3), I64(3), I64(-2), I64(0), I64(4)>>

Boundary == <<I64(0), I64(5)>>

Multiplier == I64(811589153)

Vals == {I64(v) : v \in (-MaxVal) .. MaxVal} \cup {I64Min}

SmallInputs == UNION {[1 .. n -> Vals] : n \in 0 .. MaxLen}

Callers == {"problem_1", "problem_2", "any"}

InputsOf(c) ==
    IF c = "any" THEN SmallInputs \cup {Example, Boundary} ELSE {Example}

---------------------------------------------------------------------------
(* MixerNode and Mixer. *)

\* Variant of MixerNode::new with the two links exchanged.
MixerNodeNewReversed(i, v, total) ==
    [i |-> i,
     prev |-> (i + 1) % total,
     next |-> (i + total - 1) % total,
     value |-> v]

MixerNodeNew(i, v, total) ==
    [i |-> i,
     prev |-> (i + total - 1) % total,
     next |-> (i + 1) % total,
     value |-> v]

NodesLen(ns) == Cardinality(DOMAIN ns)

NoNodes == [i \in {} |-> MixerNodeNew(0, I64Zero, 1)]

\* The closure of Mixer::new as it runs over numbers[i ..]: `zero` is the
\* captured variable; ok is FALSE when assert!(zero == 0) fails.
RECURSIVE ZeroScan(_, _, _)
ZeroScan(numbers, i, z) ==
    IF i = Len(numbers) THEN [ok |-> TRUE, zero |-> z]
    ELSE IF numbers[i + 1] = I64Zero
         THEN IF z # 0 THEN [ok |-> FALSE, zero |-> z]
              ELSE ZeroScan(numbers, i + 1, i)
         ELSE ZeroScan(numbers, i + 1, z)

MixerNewNodes(numbers) ==
    [i \in 0 .. (Len(numbers) - 1) |->
        MixerNodeNew(i, numbers[i + 1], Len(numbers))]

\* Variant of Mixer::new that rejects fewer than 2 values.
MixerNewValidating(numbers) ==
    LET scan == ZeroScan(numbers, 0, 0)
        ok == scan.ok /\ Len(numbers) >= 2
    IN  [ok |-> ok,
         nodes |-> IF ok THEN MixerNewNodes(numbers) ELSE NoNodes,
         zero |-> scan.zero]

\* Variant of Mixer::new that rejects an input without a zero value.
MixerNewRequiresZero(numbers) ==
    LET scan == ZeroScan(numbers, 0, 0)
        ok == scan.ok /\ (\E j \in 1 .. Len(numbers) : numbers[j] = I64Zero)
    IN  [ok |-> ok,
         nodes |-> IF ok THEN MixerNewNodes(numbers) ELSE NoNodes,
         zero |-> scan.zero]

\* Variant of Mixer::new that never assigns the captured `zero`.
MixerNewForgetsAnchor(numbers) ==
    LET scan == ZeroScan(numbers, 0, 0)
    IN  [ok |-> scan.ok,
         nodes |-> IF scan.ok THEN MixerNewNodes(numbers) ELSE NoNodes,
         zero |-> 0]

\* Mixer::new: ok is FALSE when the assertion fails, and then no Mixer is
\* returned.
MixerNew(numbers) ==
    LET scan == ZeroScan(numbers, 0, 0)
    IN  [ok |-> scan.ok,
         nodes |-> IF scan.ok THEN MixerNewNodes(numbers) ELSE NoNodes,
         zero |-> scan.zero]

\* Variant of the loop bound that reduces delta modulo len.
MixStepHopsModLen(ns, delta) == MagMod(delta, NodesLen(ns))

\* The bound `delta % (len - 1)` of the walk loop of mix_step_left and
\* mix_step_right, for len >= 2: the number of hops walked.
MixStepHops(ns, delta) == MagMod(delta, NodesLen(ns) - 1)

RECURSIVE WalkPrev(_, _, _)
WalkPrev(ns, target, n) ==
    IF n = 0 THEN target ELSE WalkPrev(ns, ns[target].prev, n - 1)

RECURSIVE WalkNext(_, _, _)
WalkNext(ns, target, n) ==
    IF n = 0 THEN target ELSE WalkNext(ns, ns[target].next, n - 1)

\* Variant of mix_step_left that reduces delta modulo len.
MixStepLeftModLen(ns, source, delta) ==
    LET source_node == ns[source]
        n1 == [ns EXCEPT ![source_node.prev].next = source_node.next]
        n2 == [n1 EXCEPT ![source_node.next].prev = source_node.prev]
        target == WalkPrev(n2, source, MagMod(delta, NodesLen(ns)))
        target_node == n2[target]
        n3 == [n2 EXCEPT ![source].prev = target_node.prev]
        n4 == [n3 EXCEPT ![source].next = target]
        n5 == [n4 EXCEPT ![target_node.prev].next = source]
    IN  [n5 EXCEPT ![target].prev = source]

MixStepLeft(ns, source, delta) ==
    LET source_node == ns[source]
        n1 == [ns EXCEPT ![source_node.prev].next = source_node.next]
        n2 == [n1 EXCEPT ![source_node.next].prev = source_node.prev]
        target == WalkPrev(n2, source, MixStepHops(ns, delta))
        target_node == n2[target]
        n3 == [n2 EXCEPT ![source].prev = target_node.prev]
        n4 == [n3 EXCEPT ![source].next = target]
        n5 == [n4 EXCEPT ![target_node.prev].next = source]
    IN  [n5 EXCEPT ![target].prev = source]

\* Variant of mix_step_right that stores the copied target node, with the
\* new prev, into the source slot instead of assigning the two links.
MixStepRightCopiesNode(ns, source, delta) ==
    LET source_node == ns[source]
        n1 == [ns EXCEPT ![source_node.prev].next = source_node.next]
        n2 == [n1 EXCEPT ![source_node.next].prev = source_node.prev]
        target == WalkNext(n2, source, MixStepHops(ns, delta))
        target_node == n2[target]
        n4 == [n2 EXCEPT ![source] = [target_node EXCEPT !.prev = target]]
        n5 == [n4 EXCEPT ![target_node.next].prev = source]
    IN  [n5 EXCEPT ![target].next = source]

MixStepRight(ns, source, delta) ==
    LET source_node == ns[source]
        n1 == [ns EXCEPT ![source_node.prev].next = source_node.next]
        n2 == [n1 EXCEPT ![source_node.next].prev = source_node.prev]
        target == WalkNext(n2, source, MixStepHops(ns, delta))
        target_node == n2[target]
        n3 == [n2 EXCEPT ![source].next = target_node.next]
        n4 == [n3 EXCEPT ![source].prev = target]
        n5 == [n4 EXCEPT ![target_node.next].prev = source]
    IN  [n5 EXCEPT ![target].next = source]

\* Variant of the loop body with the two directions exchanged.
MixOneSwapsDirections(ns, i) ==
    LET delta == ns[i].value
    IN  IF I64IsNeg(delta) THEN MixStepRight(ns, i, AsUsize(I64Neg(delta)))
        ELSE IF I64IsPos(delta) THEN MixStepLeft(ns, i, AsUsize(delta))
        ELSE ns

\* Variant of the loop body that sends a zero delta to mix_step_right.
MixOneRelocatesZero(ns, i) ==
    LET delta == ns[i].value
    IN  IF I64IsNeg(delta) THEN MixStepLeft(ns, i, AsUsize(I64Neg(delta)))
        ELSE MixStepRight(ns, i, AsUsize(delta))

\* The body of the loop of Mixer::mix, for len >= 2.
MixOne(ns, i) ==
    LET delta == ns[i].value
    IN  IF I64IsNeg(delta) THEN MixStepLeft(ns, i, AsUsize(I64Neg(delta)))
        ELSE IF I64IsPos(delta) THEN MixStepRight(ns, i, AsUsize(delta))
        ELSE ns

\* The remainder `delta % (len - 1)` of mix_step_left / mix_step_right
\* panics when the divisor is zero.
MixStepPanics(ns) == NodesLen(ns) - 1 = 0

\* The loop body of Mixer::mix panics: in `(-delta) as usize` when the
\* build checks overflow, or in the remainder of the step.
MixOnePanics(ns, i, overflow_checks) ==
    \/ ns[i].value # I64Zero /\ MixStepPanics(ns)
    \/ overflow_checks /\ I64IsNeg(ns[i].value) /\ NegOverflows(ns[i].value)

\* The hops walked by the loop body of Mixer::mix for len >= 2; h when no
\* step is made.
MixOneHops(ns, i, h) ==
    LET delta == ns[i].value
    IN  IF I64IsNeg(delta) THEN MixStepHops(ns, AsUsize(I64Neg(delta)))
        ELSE IF I64IsPos(delta) THEN MixStepHops(ns, AsUsize(delta))
        ELSE h

\* The bound `i % len` of the walk loop of get_at_index, for len >= 1.
GetAtIndexHops(ns, i) == i % NodesLen(ns)

\* The remainder `i % len` of get_at_index panics when the divisor is zero.
GetAtIndexPanics(ns) == NodesLen(ns) = 0

\* Variant of get_at_index that walks prev links.
GetAtIndexBackwards(ns, z, i) == ns[WalkPrev(ns, z, i % NodesLen(ns))].value

\* Variant of get_at_index that reduces the offset modulo len + 1.
GetAtIndexModLenPlusOne(ns, z, i) ==
    ns[WalkNext(ns, z, i % (NodesLen(ns) + 1))].value

\* Mixer::get_at_index for len >= 1.
GetAtIndex(ns, z, i) == ns[WalkNext(ns, z, GetAtIndexHops(ns, i))].value

---------------------------------------------------------------------------
(* The state machine. *)

\* day_3.rs is not running.
Day3Idle == [op |-> "idle", items |-> <<>>, points |-> 0, flags |-> {},
             priority |-> 0]

\* The frame length L of the finder of day_6.rs problem_1.
FrameLen == 4

\* UniqueSequenceFinder::<L>::default(); no letter appended.
Day6Idle ==
    [op |-> "idle",
     buffer |-> [c \in 0 .. (FrameLen - 1) |-> 0],
     count |-> 0,
     presence_flags |-> {},
     overflows |-> [l \in 0 .. 26 |-> 0],
     overflow_count |-> 0,
     appended |-> <<>>,
     detected |-> FALSE]

\* The rope before the first move: the closures of evaluate_moves and
\* follow_head start at (0, 0) with offset (0, 0).
Day9Knot ==
    [offset_to_head |-> <<0, 0>>, curr |-> <<0, 0>>, tail_delta |-> <<0, 0>>]

Day9Idle ==
    [op |-> "idle", moves |-> 0, head |-> <<0, 0>>,
     knots |-> [k \in {} |-> Day9Knot]]

\* `run` has not been entered; EXAMPLE is false.
CliIdle ==
    [pc |-> "idle",
     args |-> [example |-> FALSE, problem_1 |-> FALSE, problem_2 |-> FALSE,
               days |-> {}],
     run_all_days |-> FALSE,
     run_all_problems |-> FALSE,
     EXAMPLE |-> FALSE,
     day |-> 1,
     problem |-> 1,
     ran |-> <<>>]

\* The Mixer of day_20.rs is not used by the caller c.
MixerUnused(c) ==
    /\ caller = c
    /\ input = <<>>
    /\ pc = "start"
    /\ nodes = NoNodes
    /\ zero = 0
    /\ mix_i = 0
    /\ rounds = 0
    /\ pre = NoNodes
    /\ last_k = -1
    /\ result = I64Zero
    /\ queried = 0
    /\ answer = I64Zero
    /\ panic = ""
    /\ hops = -1

Init ==
    /\ caller \in Callers
    /\ input \in InputsOf(caller)
    /\ pc = "start"
    /\ nodes = NoNodes
    /\ zero = 0
    /\ mix_i = 0
    /\ rounds = 0
    /\ pre = NoNodes
    /\ last_k = -1
    /\ result = I64Zero
    /\ queried = 0
    /\ answer = I64Zero
    /\ panic = ""
    /\ hops = -1
    /\ day3 = Day3Idle
    /\ day6 = Day6Idle
    /\ day9 = Day9Idle
    /\ cli = CliIdle

Numbers ==
    IF caller = "problem_2"
    THEN [j \in 1 .. Len(input) |-> I64Mul(input[j], Multiplier)]
    ELSE input

\* Mixer::new, called first by every caller.
New ==
    /\ pc = "start"
    /\ LET m == MixerNew(Numbers)
       IN  IF m.ok
           THEN /\ nodes' = m.nodes
                /\ zero' = m.zero
                /\ pre' = m.nodes
                /\ pc' = "ready"
                /\ panic' = panic
           ELSE /\ pc' = "panic"
                /\ panic' = "new"
                /\ UNCHANGED <<nodes, zero, pre>>
    /\ UNCHANGED <<caller, input, mix_i, rounds, last_k, result, queried,
                   answer, hops,
                   day3, day6, day9, cli>>

RoundsOf(c) ==
    IF c = "problem_1" THEN 1 ELSE IF c = "problem_2" THEN 10 ELSE MaxRounds

\* Entry to Mixer::mix.
MixCall ==
    /\ pc = "ready"
    /\ rounds < RoundsOf(caller)
    /\ pc' = "mix"
    /\ mix_i' = 0
    /\ pre' = nodes
    /\ last_k' = -1
    /\ result' = I64Zero
    /\ hops' = -1
    /\ UNCHANGED <<caller, input, nodes, zero, rounds, queried, answer,
                   panic,
                   day3, day6, day9, cli>>

\* Variant of the iteration that relocates the element at ring position
\* mix_i, counted from the anchor, instead of the element at index mix_i.
MixIterByRingPosition ==
    /\ pc = "mix"
    /\ mix_i < NodesLen(nodes)
    /\ \E overflow_checks \in BOOLEAN :
         LET e == WalkNext(nodes, zero, mix_i)
         IN  IF MixOnePanics(nodes, e, overflow_checks)
             THEN /\ pc' = "panic"
                  /\ panic' = "mix"
                  /\ UNCHANGED <<nodes, mix_i, hops>>
             ELSE /\ nodes' = MixOne(nodes, e)
                  /\ hops' = MixOneHops(nodes, e, hops)
                  /\ mix_i' = mix_i + 1
                  /\ UNCHANGED <<pc, panic>>
    /\ UNCHANGED <<caller, input, zero, rounds, pre, last_k, result, queried,
                   answer,
                   day3, day6, day9, cli>>

\* One iteration of the loop of Mixer::mix.  With a single node a non-zero
\* delta panics in mix_step_left / mix_step_right; the negation of
\* i64::MIN panics or wraps as the build checks overflow or not.
MixIter ==
    /\ pc = "mix"
    /\ mix_i < NodesLen(nodes)
    /\ \E overflow_checks \in BOOLEAN :
         IF MixOnePanics(nodes, mix_i, overflow_checks)
         THEN /\ pc' = "panic"
              /\ panic' = "mix"
              /\ UNCHANGED <<nodes, mix_i, hops>>
         ELSE /\ nodes' = MixOne(nodes, mix_i)
              /\ hops' = MixOneHops(nodes, mix_i, hops)
              /\ mix_i' = mix_i + 1
              /\ UNCHANGED <<pc, panic>>
    /\ UNCHANGED <<caller, input, zero, rounds, pre, last_k, result, queried,
                   answer,
                   day3, day6, day9, cli>>

\* Return from Mixer::mix.
MixReturn ==
    /\ pc = "mix"
    /\ mix_i = NodesLen(nodes)
    /\ pc' = "ready"
    /\ rounds' = rounds + 1
    /\ UNCHANGED <<caller, input, nodes, zero, mix_i, pre, last_k, result,
                   queried, answer, panic, hops,
                   day3, day6, day9, cli>>

QueryOffsets == 0 .. MaxOffset

\* Variant of the call in which get_at_index keeps the element it reached
\* as the new anchor.
QueryMovesAnchor(k) ==
    /\ pc = "ready"
    /\ caller = "any"
    /\ IF GetAtIndexPanics(nodes)
       THEN /\ pc' = "panic"
            /\ panic' = "get_at_index"
            /\ UNCHANGED <<last_k, result, zero, hops>>
       ELSE /\ last_k' = k
            /\ result' = GetAtIndex(nodes, zero, k)
            /\ hops' = GetAtIndexHops(nodes, k)
            /\ zero' = WalkNext(nodes, zero, k % NodesLen(nodes))
            /\ UNCHANGED <<pc, panic>>
    /\ UNCHANGED <<caller, input, nodes, mix_i, rounds, pre, queried, answer,
                   day3, day6, day9, cli>>

\* A call of Mixer::get_at_index by the caller "any".  Without nodes the
\* remainder by len = 0 panics.
Query(k) ==
    /\ pc = "ready"
    /\ caller = "any"
    /\ IF GetAtIndexPanics(nodes)
       THEN /\ pc' = "panic"
            /\ panic' = "get_at_index"
            /\ UNCHANGED <<last_k, result, hops>>
       ELSE /\ last_k' = k
            /\ result' = GetAtIndex(nodes, zero, k)
            /\ hops' = GetAtIndexHops(nodes, k)
            /\ UNCHANGED <<pc, panic>>
    /\ UNCHANGED <<caller, input, nodes, zero, mix_i, rounds, pre, queried,
                   answer,
                   day3, day6, day9, cli>>

SumOffsets == <<1000, 2000, 3000>>

\* The tail of problem_1 / problem_2: one element of the iterator chain
\* [1000, 2000, 3000].map(get_at_index).sum(), which returns after the third.
SumIter ==
    /\ pc = "ready"
    /\ caller \in {"problem_1", "problem_2"}
    /\ rounds = RoundsOf(caller)
    /\ IF GetAtIndexPanics(nodes)
       THEN /\ pc' = "panic"
            /\ panic' = "get_at_index"
            /\ UNCHANGED <<last_k, result, queried, answer, hops>>
       ELSE /\ last_k' = SumOffsets[queried + 1]
            /\ result' = GetAtIndex(nodes, zero, SumOffsets[queried + 1])
            /\ hops' = GetAtIndexHops(nodes, SumOffsets[queried + 1])
            /\ answer' = I64Add(answer, result')
            /\ queried' = queried + 1
            /\ pc' = IF queried' = Len(SumOffsets) THEN "done" ELSE pc
            /\ panic' = panic
    /\ UNCHANGED <<caller, input, nodes, zero, mix_i, rounds, pre,
                   day3, day6, day9, cli>>

Next ==
    \/ New
    \/ MixCall
    \/ MixIter
    \/ MixReturn
    \/ \E k \in QueryOffsets : Query(k)
    \/ SumIter

Spec == Init /\ [][Next]_vars

---------------------------------------------------------------------------
(* day_3.rs: the points of an item letter, the bit flags of a slice of     *)
(* items and the item shared by the two halves of a line.  A u8 is a       *)
(* number 0 .. 255 and a u64 word is held as the set of its one bits.      *)

LowerA == 97
LowerZ == 122
UpperA == 65
UpperZ == 90

\* The item is matched by one of the two letter arms of to_points; any
\* other byte reaches unreachable!().
ToPointsMatches(item) ==
    item \in LowerA .. LowerZ \/ item \in UpperA .. UpperZ

\* Variant of to_points whose upper-case arm adds 26.
ToPointsUpperFrom26(item) ==
    IF item \in LowerA .. LowerZ THEN item - LowerA + 1
    ELSE item - UpperA + 26

\* to_points for a byte that one of the letter arms matches.
ToPoints(item) ==
    IF item \in LowerA .. LowerZ THEN item - LowerA + 1
    ELSE item - UpperA + 27

FlagsLen == 26 * 2 + 1

\* Variant of FLAGS that gives entry i the bit i - 1.
FlagsOneBased(i) == {i - 1}

\* FLAGS[i] = 1 << i, for i < FlagsLen.
Flags(i) == {i}

U64Or(a, b) == a \cup b

U64And(a, b) == a \cap b

TrailingZeros(w) ==
    IF w = {} THEN 64 ELSE CHOOSE b \in w : \A c \in w : b <= c

\* The fold of to_flags over items that to_points matches.
RECURSIVE ToFlagsFold(_, _)
ToFlagsFold(items, flags) ==
    IF items = <<>> THEN flags
    ELSE ToFlagsFold(Tail(items),
                     U64Or(flags, Flags(ToPoints(Head(items)))))

ToFlagsPanics(items) ==
    \E j \in 1 .. Len(items) :
        ~ToPointsMatches(items[j]) \/ ToPoints(items[j]) >= FlagsLen

ToFlags(items) == ToFlagsFold(items, {})

\* items.split_at(mid)
SplitAt(items, mid) ==
    <<SubSeq(items, 1, mid), SubSeq(items, mid + 1, Len(items))>>

\* Variant of check_for_p1_errors that joins the two halves with `|`.
CheckForP1ErrorsUnion(items) ==
    LET halves == SplitAt(items, Len(items) \div 2)
    IN  TrailingZeros(U64Or(ToFlags(halves[1]), ToFlags(halves[2])))

CheckForP1Errors(items) ==
    LET halves == SplitAt(items, Len(items) \div 2)
        left_flags == ToFlags(halves[1])
        right_flags == ToFlags(halves[2])
    IN  TrailingZeros(U64And(left_flags, right_flags))

\* The bytes of the enumerated lines: a, b, z, A, Z and the hyphen, which
\* is not an item letter.
Day3Bytes == {LowerA, LowerA + 1, LowerZ, UpperA, UpperZ, 45}

\* The inputs of the tests of day_3.rs: "a", "abcABC", "aa".
Day3TestA == <<97>>
Day3TestAbcABC == <<97, 98, 99, 65, 66, 67>>
Day3TestAa == <<97, 97>>

Day3Lines ==
    UNION {[1 .. n -> Day3Bytes] : n \in 0 .. MaxItems}
        \cup {<<b>> : b \in 0 .. 255}
        \cup {Day3TestA, Day3TestAbcABC, Day3TestAa}

Day3Init ==
    /\ caller = "day_3"
    /\ input = <<>>
    /\ pc = "start"
    /\ nodes = NoNodes
    /\ zero = 0
    /\ mix_i = 0
    /\ rounds = 0
    /\ pre = NoNodes
    /\ last_k = -1
    /\ result = I64Zero
    /\ queried = 0
    /\ answer = I64Zero
    /\ panic = ""
    /\ hops = -1
    /\ \E items \in Day3Lines : day3 = [Day3Idle EXCEPT !.op = "input",
                                                        !.items = items]
    /\ day6 = Day6Idle
    /\ day9 = Day9Idle
    /\ cli = CliIdle

\* A call of to_points on a single byte.
Day3ToPoints ==
    /\ day3.op = "input"
    /\ Len(day3.items) = 1
    /\ IF ToPointsMatches(day3.items[1])
       THEN day3' = [day3 EXCEPT !.op = "to_points",
                                 !.points = ToPoints(day3.items[1])]
       ELSE day3' = [day3 EXCEPT !.op = "panic"]
    /\ UNCHANGED <<mixerVars, day6, day9, cli>>

\* A call of to_flags on a slice.
Day3ToFlags ==
    /\ day3.op = "input"
    /\ IF ToFlagsPanics(day3.items)
       THEN day3' = [day3 EXCEPT !.op = "panic"]
       ELSE day3' = [day3 EXCEPT !.op = "to_flags",
                                 !.flags = ToFlags(day3.items)]
    /\ UNCHANGED <<mixerVars, day6, day9, cli>>

\* A call of check_for_p1_errors on a line.
Day3CheckForP1Errors ==
    /\ day3.op = "input"
    /\ IF ToFlagsPanics(day3.items)
       THEN day3' = [day3 EXCEPT !.op = "panic"]
       ELSE day3' = [day3 EXCEPT !.op = "check_for_p1_errors",
                                 !.priority = CheckForP1Errors(day3.items)]
    /\ UNCHANGED <<mixerVars, day6, day9, cli>>

Day3Next ==
    \/ Day3ToPoints
    \/ Day3ToFlags
    \/ Day3CheckForP1Errors

SpecDay3 == Day3Init /\ [][Day3Next]_vars

---------------------------------------------------------------------------
(* day_6.rs: UniqueSequenceFinder<L>, a rolling frame of the last L        *)
(* letters with one presence bit per letter and a count of the duplicates  *)
(* in the frame.  A u32 word is held as the set of its one bits.           *)

U32Bits == 0 .. 31

\* FLAGS[i] = 1_u32 << i, for i < 27.
Day6Flags(i) == {i}

U32Not(w) == U32Bits \ w
U32And(a, b) == a \cap b
U32Or(a, b) == a \cup b

\* b as u32 * w, for a bool b
U32BoolTimes(b, w) == IF b THEN w ELSE {}

SaturatingSub(a, b) == IF a >= b THEN a - b ELSE 0

BoolAsU32(b) == IF b THEN 1 ELSE 0

\* Variant of append_and_detect whose out mask always clears the bit of
\* the removed letter.
AppendAndDetectAlwaysClears(f, in_letter) ==
    LET cursor == f.count % FrameLen
        out_letter == f.buffer[cursor]
        orig_overflows == f.overflows[out_letter]
        new_overflows == SaturatingSub(orig_overflows, 1)
        duplicate_removed == orig_overflows - new_overflows > 0
        out_mask == U32Not(Day6Flags(out_letter))
        overflow_count_1 ==
            SaturatingSub(f.overflow_count, BoolAsU32(duplicate_removed))
        overflows_1 == [f.overflows EXCEPT ![out_letter] = new_overflows]
        presence_flags_1 == U32And(f.presence_flags, out_mask)
        buffer_1 == [f.buffer EXCEPT ![cursor] = in_letter % 256]
        in_mask == Day6Flags(in_letter)
        new_presence_flags == U32Or(presence_flags_1, in_mask)
        duplicate_added == presence_flags_1 = new_presence_flags
        overflow_count_2 == overflow_count_1 + BoolAsU32(duplicate_added)
        count_1 == f.count + 1
    IN  [f EXCEPT !.buffer = buffer_1,
                  !.count = count_1,
                  !.presence_flags = new_presence_flags,
                  !.overflows = [overflows_1 EXCEPT ![in_letter] =
                                     @ + BoolAsU32(duplicate_added)],
                  !.overflow_count = overflow_count_2,
                  !.detected = count_1 >= FrameLen /\ overflow_count_2 = 0]

\* append_and_detect for in_letter < 27: the finder afterwards, with the
\* returned bool in `detected`.
AppendAndDetect(f, in_letter) ==
    LET cursor == f.count % FrameLen
        out_letter == f.buffer[cursor]
        orig_overflows == f.overflows[out_letter]
        new_overflows == SaturatingSub(orig_overflows, 1)
        duplicate_removed == orig_overflows - new_overflows > 0
        out_mask ==
            U32Not(U32BoolTimes(~duplicate_removed, Day6Flags(out_letter)))
        overflow_count_1 ==
            SaturatingSub(f.overflow_count, BoolAsU32(duplicate_removed))
        overflows_1 == [f.overflows EXCEPT ![out_letter] = new_overflows]
        presence_flags_1 == U32And(f.presence_flags, out_mask)
        buffer_1 == [f.buffer EXCEPT ![cursor] = in_letter % 256]
        in_mask == Day6Flags(in_letter)
        new_presence_flags == U32Or(presence_flags_1, in_mask)
        duplicate_added == presence_flags_1 = new_presence_flags
        overflow_count_2 == overflow_count_1 + BoolAsU32(duplicate_added)
        count_1 == f.count + 1
    IN  [f EXCEPT !.buffer = buffer_1,
                  !.count = count_1,
                  !.presence_flags = new_presence_flags,
                  !.overflows = [overflows_1 EXCEPT ![in_letter] =
                                     @ + BoolAsU32(duplicate_added)],
                  !.overflow_count = overflow_count_2,
                  !.detected = count_1 >= FrameLen /\ overflow_count_2 = 0]

\* The letters given to the finder: byte_to_letter of a .. z is 1 .. 26.
Day6Letters == (1 .. MaxLetter) \cup {26}

Day6Init ==
    /\ MixerUnused("day_6")
    /\ day3 = Day3Idle
    /\ day6 = Day6Idle
    /\ day9 = Day9Idle
    /\ cli = CliIdle

\* A call of append_and_detect.
Day6Append(in_letter) ==
    /\ Len(day6.appended) < MaxAppends
    /\ day6' = [AppendAndDetect(day6, in_letter) EXCEPT
                   !.op = "append",
                   !.appended = Append(day6.appended, in_letter)]
    /\ UNCHANGED <<mixerVars, day3, day9, cli>>

Day6Next == \E in_letter \in Day6Letters : Day6Append(in_letter)

SpecDay6 == Day6Init /\ [][Day6Next]_vars

---------------------------------------------------------------------------
(* day_9.rs: the rope.  Every unit move of the head is pulled through the  *)
(* chain evaluate_moves, follow_head, ..., follow_head of the iterator,    *)
(* one follow_head closure per following knot.  A point is a pair          *)
(* <<x, y>>.  Canvas::move_entry returns at once, RENDERING_ENABLED being  *)
(* false, so the canvas has no part in the positions.                      *)

Signum(x) == IF x > 0 THEN 1 ELSE IF x < 0 THEN -1 ELSE 0

\* Variant of the match whose last arm keeps the offset as it is.
SnapOffsetKeepsDiagonal(o) ==
    LET x == o[1]
        y == o[2]
    IN  IF x \in -1 .. 1 /\ y = 2 THEN <<0, 1>>
        ELSE IF x \in -1 .. 1 /\ y = -2 THEN <<0, -1>>
        ELSE IF x = 2 /\ y \in -1 .. 1 THEN <<1, 0>>
        ELSE IF x = -2 /\ y \in -1 .. 1 THEN <<-1, 0>>
        ELSE <<x, y>>

\* The match of follow_head on the offset to which the parent's delta
\* has been added.
SnapOffset(o) ==
    LET x == o[1]
        y == o[2]
    IN  IF x \in -1 .. 1 /\ y = 2 THEN <<0, 1>>
        ELSE IF x \in -1 .. 1 /\ y = -2 THEN <<0, -1>>
        ELSE IF x = 2 /\ y \in -1 .. 1 THEN <<1, 0>>
        ELSE IF x = -2 /\ y \in -1 .. 1 THEN <<-1, 0>>
        ELSE <<Signum(x), Signum(y)>>

\* The closure of evaluate_moves: the item (delta, curr) it returns.
EvaluateMoves(curr, delta) ==
    <<delta, <<curr[1] + delta[1], curr[2] + delta[2]>>>>

\* The closure of follow_head with the captured state k on the item
\* (delta, head): the captured state afterwards; the returned item is
\* (tail_delta, curr).
FollowHead(k, delta, head) ==
    LET offset_to_head ==
            SnapOffset(<<k.offset_to_head[1] + delta[1],
                         k.offset_to_head[2] + delta[2]>>)
        new_loc == <<head[1] - offset_to_head[1], head[2] - offset_to_head[2]>>
        tail_delta == <<new_loc[1] - k.curr[1], new_loc[2] - k.curr[2]>>
    IN  [offset_to_head |-> offset_to_head,
         curr |-> new_loc,
         tail_delta |-> tail_delta]

\* The item (delta, head) through the follow_head closures k, k + 1, ...
RECURSIVE Day9Chain(_, _, _, _)
Day9Chain(knots, k, delta, head) ==
    IF k \notin DOMAIN knots THEN knots
    ELSE LET after == FollowHead(knots[k], delta, head)
         IN  Day9Chain([knots EXCEPT ![k] = after], k + 1,
                       after.tail_delta, after.curr)

\* The directions of parse_move_line: U, D, L, R.
Day9Dirs == {<<0, -1>>, <<0, 1>>, <<-1, 0>>, <<1, 0>>}

\* The follow_head closures of problem_1 and of problem_2.
Day9KnotCounts == {1, 9}

Day9Init ==
    /\ MixerUnused("day_9")
    /\ day3 = Day3Idle
    /\ day6 = Day6Idle
    /\ \E n \in Day9KnotCounts :
           day9 = [Day9Idle EXCEPT !.op = "rope",
                                   !.knots = [k \in 1 .. n |-> Day9Knot]]
    /\ cli = CliIdle

\* One unit move of the head through the whole chain.
Day9Step(dir) ==
    /\ day9.op = "rope"
    /\ day9.moves < MaxMoves
    /\ LET item == EvaluateMoves(day9.head, dir)
       IN  day9' = [day9 EXCEPT
                       !.moves = @ + 1,
                       !.head = item[2],
                       !.knots = Day9Chain(day9.knots, 1, item[1], item[2])]
    /\ UNCHANGED <<mixerVars, day3, day6, cli>>

Day9Next == \E dir \in Day9Dirs : Day9Step(dir)

SpecDay9 == Day9Init /\ [][Day9Next]_vars

---------------------------------------------------------------------------
(* helpers.rs and main.rs: the function `run` that the macro advent!       *)
(* generates for the days registered in main.rs, and the global EXAMPLE.   *)
(* cli.day is the place in the registration list of the `if` block that    *)
(* comes next and cli.problem the problem inside it; cli.ran lists the     *)
(* generated problem functions that were called.                           *)

\* The days of the invocation of advent! in main.rs, in its order.
RegisteredDays ==
    <<1, 2, 3, 4, 5, 6, 7, 8, 9, 10, 11, 12, 13, 14, 15, 16, 17, 18>>

DayNumbers == {RegisteredDays[j] : j \in 1 .. Len(RegisteredDays)}

\* The sets of at most k day flags.
RECURSIVE DayFlagSets(_)
DayFlagSets(k) ==
    IF k = 0 THEN {{}}
    ELSE LET fewer == DayFlagSets(k - 1)
         IN  fewer \cup {S \cup {d} : S \in fewer, d \in DayNumbers}

\* What Args::parse() can return.
ArgsSet ==
    [example : BOOLEAN, problem_1 : BOOLEAN, problem_2 : BOOLEAN,
     days : DayFlagSets(MaxDayFlags)]

\* let run_all_days = true && !args.day_1 && ... && !args.day_18
RunAllDays(args) == \A d \in DayNumbers : d \notin args.days

\* Variant of run_all_problems that is true when either flag is absent.
RunAllProblemsEither(args) == (~args.problem_1) \/ (~args.problem_2)

\* let run_all_problems = (!args.problem_1) && (!args.problem_2)
RunAllProblems(args) == (~args.problem_1) /\ (~args.problem_2)

\* args.problem_1 / args.problem_2
ProblemFlag(args, k) == IF k = 1 THEN args.problem_1 ELSE args.problem_2

\* What a called problem function can do: return, or panic (on an input
\* file it cannot handle), which ends the process.
Outcomes == {"returns", "panics"}

CliInit ==
    /\ MixerUnused("run")
    /\ day3 = Day3Idle
    /\ day6 = Day6Idle
    /\ day9 = Day9Idle
    /\ \E args \in ArgsSet : cli = [CliIdle EXCEPT !.pc = "run", !.args = args]

\* The head of `run`: the two run_all values and set_example.
CliRun ==
    /\ cli.pc = "run"
    /\ cli' = [cli EXCEPT
                  !.pc = "days",
                  !.run_all_days = RunAllDays(cli.args),
                  !.EXAMPLE = IF cli.args.example THEN TRUE ELSE @,
                  !.run_all_problems = RunAllProblems(cli.args)]
    /\ UNCHANGED <<mixerVars, day3, day6, day9>>

\* The condition of the `if` block of the day at place j.
DayBlockTaken(c, j) == c.run_all_days \/ RegisteredDays[j] \in c.args.days

\* The `if` block of a day whose condition is false.
CliSkipDay ==
    /\ cli.pc = "days"
    /\ cli.day <= Len(RegisteredDays)
    /\ ~DayBlockTaken(cli, cli.day)
    /\ cli' = [cli EXCEPT !.day = @ + 1]
    /\ UNCHANGED <<mixerVars, day3, day6, day9>>

\* The place after problem k of the day at place j.
AfterProblem(c, outcome) ==
    IF outcome = "panics" THEN [c EXCEPT !.pc = "panic"]
    ELSE IF c.problem = 1 THEN [c EXCEPT !.problem = 2]
    ELSE [c EXCEPT !.day = @ + 1, !.problem = 1]

\* Inside the block of a day: the `if` of problem 1 or of problem 2, which
\* calls the example or the full variant of the problem function.
CliProblem ==
    /\ cli.pc = "days"
    /\ cli.day <= Len(RegisteredDays)
    /\ DayBlockTaken(cli, cli.day)
    /\ IF cli.run_all_problems \/ ProblemFlag(cli.args, cli.problem)
       THEN \E outcome \in Outcomes :
                cli' = AfterProblem(
                           [cli EXCEPT !.ran = Append(@,
                               [day |-> RegisteredDays[cli.day],
                                problem |-> cli.problem,
                                example |-> cli.args.example])],
                           outcome)
       ELSE cli' = AfterProblem(cli, "returns")
    /\ UNCHANGED <<mixerVars, day3, day6, day9>>

\* The end of `run`.
CliReturn ==
    /\ cli.pc = "days"
    /\ cli.day = Len(RegisteredDays) + 1
    /\ cli' = [cli EXCEPT !.pc = "done"]
    /\ UNCHANGED <<mixerVars, day3, day6, day9>>

CliNext ==
    \/ CliRun
    \/ CliSkipDay
    \/ CliProblem
    \/ CliReturn

SpecCli == CliInit /\ [][CliNext]_vars

---------------------------------------------------------------------------
(* Vocabulary of the properties. *)

\* A Mixer exists: Mixer::new has returned.
Built == pc \in {"ready", "mix", "done"}

N == NodesLen(nodes)

\* The element reached from e by exactly h next-hops (h prev-hops) in ns.
NextHops(ns, e, h) ==
    LET f[j \in 0 .. h] == IF j = 0 THEN e ELSE ns[f[j - 1]].next
    IN  f[h]

PrevHops(ns, e, h) ==
    LET f[j \in 0 .. h] == IF j = 0 THEN e ELSE ns[f[j - 1]].prev
    IN  f[h]

\* The next links of ns form one cycle through all of its elements.
SingleCycle(ns) ==
    \A e \in DOMAIN ns :
        /\ NextHops(ns, e, NodesLen(ns)) = e
        /\ {NextHops(ns, e, j) : j \in 0 .. (NodesLen(ns) - 1)} = DOMAIN ns

\* The hop count of the relocation of element e.
StepsOf(ns, e) == MagMod(ns[e].value.mag, NodesLen(ns) - 1)

\* A step of the model that is the relocation (or the skipping) of the
\* element mix_i by the loop body of Mixer::mix.
Relocation == pc = "mix" /\ pc' = "mix" /\ mix_i' = mix_i + 1

\* The links of ns without the values.
Links(ns) == [e \in DOMAIN ns |-> <<ns[e].prev, ns[e].next>>]

ZerosOf(seq) == {j \in 1 .. Len(seq) : seq[j] = I64Zero}

---------------------------------------------------------------------------
(* C1  Cycle integrity: once a ring of N >= 2 elements is built, in every  *)
(* state between and inside mix rounds (that is, after every single        *)
(* relocation) the next links form a single cycle through all N elements.  *)
(* The code breaks it when it relocates a non-zero multiple of N - 1.      *)

C1_CycleIntegrity == (Built /\ N >= 2) => SingleCycle(nodes)

---------------------------------------------------------------------------
(* C2  Value conservation: every built ring holds at index i the i-th      *)
(* value given to Mixer::new, has as many nodes as values were given, and  *)
(* no step after construction changes a value, a node's own index, the     *)
(* number of nodes or the anchor.                                          *)

C2_ValuesAsBuilt ==
    Built =>
        /\ N = Len(Numbers)
        /\ \A e \in DOMAIN nodes :
               nodes[e].value = Numbers[e + 1] /\ nodes[e].i = e

C2_MixKeepsValues ==
    pc # "start" =>
        /\ DOMAIN nodes' = DOMAIN nodes
        /\ zero' = zero
        /\ \A e \in DOMAIN nodes :
               nodes'[e].value = nodes[e].value /\ nodes'[e].i = nodes[e].i

C2_ValueConservation == []C2_ValuesAsBuilt /\ [][C2_MixKeepsValues]_vars

\* a round has been completed and has changed the order of the ring
C2_Witness ==
    /\ pc = "ready"
    /\ rounds >= 1
    /\ N >= 3
    /\ Links(nodes) # Links(MixerNewNodes(Numbers))
    /\ SingleCycle(nodes)

---------------------------------------------------------------------------
(* C3  Example, one round: problem_1 on [1, 2, -3, 3, -2, 0, 4] gets 4,    *)
(* -3 and 2 from get_at_index at 1000, 2000 and 3000 and returns 3.        *)

C3_ExampleOneRound ==
    (caller = "problem_1" /\ input = Example) =>
        /\ last_k = 1000 => result = I64(4)
        /\ last_k = 2000 => result = I64(-3)
        /\ last_k = 3000 => result = I64(2)
        /\ pc = "done" => (rounds = 1 /\ answer = I64(3))
        /\ pc # "panic"

C3_Witness ==
    /\ caller = "problem_1"
    /\ input = Example
    /\ pc = "done"
    /\ rounds = 1
    /\ last_k = 3000
    /\ answer = I64(3)

---------------------------------------------------------------------------
(* C4  Example, ten rounds: problem_2 on [1, 2, -3, 3, -2, 0, 4] builds    *)
(* the ring of the values times 811589153, mixes exactly 10 times and      *)
(* returns 1623178306.                                                     *)

C4_ExampleTenRounds ==
    (caller = "problem_2" /\ input = Example) =>
        /\ Built => \A e \in DOMAIN nodes :
                        nodes[e].value = I64Mul(Example[e + 1], Multiplier)
        /\ queried > 0 => rounds = 10
        /\ pc = "done" => answer = I64(1623178306)
        /\ pc # "panic"

C4_Witness ==
    /\ caller = "problem_2"
    /\ input = Example
    /\ pc = "done"
    /\ rounds = 10
    /\ queried = 3
    /\ answer.mag = <<8306, 2317, 16>>

---------------------------------------------------------------------------
(* C5  A relocation with steps = 0: relocating an element whose non-zero   *)
(* value is a multiple of N - 1, in either direction, leaves the prev and  *)
(* next link of every element as it was.  The code leaves the element      *)
(* linked to itself instead.                                               *)

C5_ZeroStepsIsNoOp ==
    [][(/\ Relocation
        /\ N >= 2
        /\ nodes[mix_i].value # I64Zero
        /\ StepsOf(nodes, mix_i) = 0) => Links(nodes') = Links(nodes)]_vars

---------------------------------------------------------------------------
(* C6  Boundary N = 2: the ring built from [0, 5] is the same after any    *)
(* number of mix rounds, each element's prev and next being the other      *)
(* element, and get_at_index gives 5 at offset 1 and 0 at offset 0.        *)

C6_BoundaryUnchanged ==
    (caller = "any" /\ input = Boundary /\ Built) =>
        /\ \A e \in DOMAIN nodes :
               nodes[e].prev = 1 - e /\ nodes[e].next = 1 - e
        /\ GetAtIndex(nodes, zero, 1) = I64(5)
        /\ GetAtIndex(nodes, zero, 0) = I64(0)

---------------------------------------------------------------------------
(* C7  Zero-delta stability.  As stated: after a complete mix round every  *)
(* zero-valued element has the prev and next it had when the round began   *)
(* (stated here for the inputs in which no relocation has steps = 0, so    *)
(* that a violation does not come from the defect of C5).                  *)

NoZeroSteps(numbers) ==
    \A j \in 1 .. Len(numbers) :
        numbers[j] # I64Zero => MagMod(numbers[j].mag, Len(numbers) - 1) # 0

C7_ZeroKeepsNeighboursOverRound ==
    (pc = "ready" /\ rounds >= 1 /\ N >= 2 /\ NoZeroSteps(Numbers)) =>
        \A z \in DOMAIN nodes :
            nodes[z].value = I64Zero =>
                /\ nodes[z].prev = pre[z].prev
                /\ nodes[z].next = pre[z].next

(* C7 as amended: a zero-valued element is never relocated.  Its prev and  *)
(* next links change only in the relocation of another, non-zero element;  *)
(* its own turn, the turns of other zero-valued elements, the entry to and *)
(* return from mix and the queries leave its links alone.                  *)

C7_ZeroMovedOnlyByOthers ==
    [][\A z \in DOMAIN nodes :
          (Built /\ nodes[z].value = I64Zero) =>
              /\ nodes'[z].prev # nodes[z].prev =>
                    /\ Relocation
                    /\ mix_i # z
                    /\ nodes[mix_i].value # I64Zero
              /\ nodes'[z].next # nodes[z].next =>
                    /\ Relocation
                    /\ mix_i # z
                    /\ nodes[mix_i].value # I64Zero]_vars

\* after a complete round of the example the zero-valued element has had
\* its turn and has other neighbours than when the round began
C7_Witness ==
    /\ input = Example
    /\ pc = "ready"
    /\ rounds = 1
    /\ nodes[zero].value = I64Zero
    /\ nodes[zero].prev # pre[zero].prev
    /\ nodes[zero].next # pre[zero].next

---------------------------------------------------------------------------
(* C8  get_at_index(k): for an input with exactly one zero value, every    *)
(* call returns the value of the element that is exactly k mod N next-hops *)
(* from the zero-valued element, in every ring state reached by mixing,    *)
(* and no call of get_at_index panics.                                     *)

C8_GetAtIndexWalks ==
    Cardinality(ZerosOf(input)) = 1 =>
        /\ panic # "get_at_index"
        /\ last_k >= 0 =>
              \E z \in DOMAIN nodes :
                  /\ nodes[z].value = I64Zero
                  /\ result = nodes[NextHops(nodes, z, last_k % N)].value

\* a query beyond one turn of a ring that a round has reordered
C8_Witness ==
    /\ Cardinality(ZerosOf(input)) = 1
    /\ pc = "ready"
    /\ rounds >= 1
    /\ N >= 3
    /\ SingleCycle(nodes)
    /\ Links(nodes) # Links(pre)
    /\ last_k > N
    /\ last_k % N # 0
    /\ result # I64Zero

---------------------------------------------------------------------------
(* C9  Offset periodicity: in every state of a built ring with N >= 1,     *)
(* get_at_index(k) = get_at_index(k + N) for the offsets k >= 0.           *)

C9_OffsetPeriodicity ==
    (Built /\ N >= 1) =>
        \A k \in 0 .. MaxOffset :
            GetAtIndex(nodes, zero, k) = GetAtIndex(nodes, zero, k + N)

\* a query at k + N has returned what get_at_index(k) is, in a reordered
\* ring where the neighbouring offsets give something else
C9_Witness ==
    /\ pc = "ready"
    /\ rounds >= 1
    /\ N >= 3
    /\ Links(nodes) # Links(pre)
    /\ last_k >= N
    /\ result = GetAtIndex(nodes, zero, last_k - N)
    /\ result # GetAtIndex(nodes, zero, last_k - N + 1)

---------------------------------------------------------------------------
(* C10  Fewer than 2 values.  As stated: Mixer::new fails on an input of   *)
(* 0 or 1 values and constructs no ring.                                   *)

C10_BuildRejectsShortInput ==
    (Len(input) < 2 /\ pc # "start") =>
        (pc = "panic" /\ panic = "new" /\ nodes = NoNodes)

(* C10 as amended: Mixer::new never fails on an input of 0 or 1 values and *)
(* returns a ring of that many nodes.  With no value, mix does nothing and *)
(* the first get_at_index panics; with one non-zero value the first mix    *)
(* panics and no round completes; with the single value 0 nothing panics   *)
(* and get_at_index returns 0.                                             *)

C10_ShortInputFailsLater ==
    (Len(input) < 2 /\ pc # "start") =>
        /\ panic # "new"
        /\ N = Len(input)
        /\ \A e \in DOMAIN nodes : nodes[e].prev = e /\ nodes[e].next = e
        /\ Len(input) = 0 =>
              /\ panic \in {"", "get_at_index"}
              /\ last_k = -1
        /\ (Len(input) = 1 /\ input[1] # I64Zero) =>
              /\ panic \in {"", "mix"}
              /\ rounds = 0
              /\ pc = "mix" => mix_i = 0
        /\ (Len(input) = 1 /\ input[1] = I64Zero) =>
              /\ panic = ""
              /\ last_k >= 0 => result = I64Zero
        /\ pc = "panic" <=> panic # ""

\* a short input whose first failure is a later call
C10_Witness ==
    /\ Len(input) < 2
    /\ pc = "panic"
    /\ panic \in {"mix", "get_at_index"}
    /\ N = Len(input)

---------------------------------------------------------------------------
(* C11  No zero value.  As stated: on a ring built from an input without a *)
(* zero value get_at_index fails and never returns a value.                *)

C11_NoAnchorNoAnswer ==
    (ZerosOf(Numbers) = {} /\ pc # "start") => last_k = -1

(* C11 as amended: for an input without a zero value Mixer::new succeeds   *)
(* and leaves the anchor at index 0, whose value is not zero.  Every       *)
(* get_at_index(k) on the N >= 1 nodes returns the value that is k mod N   *)
(* next-hops from element 0; the only failure of get_at_index is the       *)
(* remainder by zero of the empty ring.                                    *)

C11_NoZeroAnchorsAtFirst ==
    (ZerosOf(Numbers) = {} /\ pc # "start") =>
        /\ panic # "new"
        /\ zero = 0
        /\ N = Len(Numbers)
        /\ N >= 1 => nodes[zero].value # I64Zero
        /\ last_k >= 0 =>
              result = nodes[NextHops(nodes, 0, last_k % N)].value
        /\ panic = "get_at_index" => N = 0

\* a value has been returned relative to the non-zero element 0 of a ring
\* that a round has reordered
C11_Witness ==
    /\ ZerosOf(Numbers) = {}
    /\ N >= 3
    /\ pc = "ready"
    /\ rounds >= 1
    /\ Links(nodes) # Links(MixerNewNodes(Numbers))
    /\ last_k >= 1
    /\ last_k % N # 0
    /\ result = nodes[NextHops(nodes, 0, last_k % N)].value

---------------------------------------------------------------------------
(* C12  get_at_index has no side effects: a step in which get_at_index     *)
(* returns (a new offset or a new result is recorded) leaves every node    *)
(* (prev, next, value, index) and the anchor as they were.                 *)

C12_GetAtIndexIsPure ==
    [][(/\ pc = "ready"
        /\ last_k' >= 0
        /\ <<last_k', result'>> # <<last_k, result>>)
       => (nodes' = nodes /\ zero' = zero)]_vars

\* a query at a non-zero offset has returned in a reordered ring, which is
\* still reordered
C12_Witness ==
    /\ caller = "any"
    /\ pc = "ready"
    /\ rounds >= 1
    /\ N >= 3
    /\ last_k % N # 0
    /\ last_k >= 1
    /\ nodes # pre
    /\ nodes # MixerNewNodes(Numbers)

---------------------------------------------------------------------------
(* The ring with an element removed. *)

\* The successor (predecessor) of x in the ring ns without the element e;
\* for x = e, the successor (predecessor) of e's old place.
SkipNext(ns, e, x) == IF ns[x].next = e THEN ns[e].next ELSE ns[x].next

SkipPrev(ns, e, x) == IF ns[x].prev = e THEN ns[e].prev ELSE ns[x].prev

\* The element h next-hops (prev-hops) from e's old place in the ring
\* without e.
SkipNextHops(ns, e, h) ==
    LET f[j \in 0 .. h] == IF j = 0 THEN e ELSE SkipNext(ns, e, f[j - 1])
    IN  f[h]

SkipPrevHops(ns, e, h) ==
    LET f[j \in 0 .. h] == IF j = 0 THEN e ELSE SkipPrev(ns, e, f[j - 1])
    IN  f[h]

\* The cyclic order of the elements other than e, as their successor map.
OthersNext(ns, e) == [x \in DOMAIN ns \ {e} |-> SkipNext(ns, e, x)]

---------------------------------------------------------------------------
(* C16  Forward relocation: when mix relocates an element e of positive    *)
(* value with steps = value mod (N - 1) >= 1, then afterwards e sits       *)
(* immediately after the element t that was steps next-hops from e's old   *)
(* place in the ring without e: t.next = e, e.prev = t and e.next is the   *)
(* former successor of t.                                                  *)

C16_ForwardRelocation ==
    [][(/\ Relocation
        /\ N >= 2
        /\ I64IsPos(nodes[mix_i].value)
        /\ StepsOf(nodes, mix_i) >= 1)
       => LET e == mix_i
              t == SkipNextHops(nodes, e, StepsOf(nodes, e))
          IN  /\ nodes'[t].next = e
              /\ nodes'[e].prev = t
              /\ nodes'[e].next = SkipNext(nodes, e, t)]_vars

---------------------------------------------------------------------------
(* C17  Backward relocation: when mix relocates an element e of negative   *)
(* value with steps = |value| mod (N - 1) >= 1, then afterwards e sits     *)
(* immediately before the element t that was steps prev-hops from e's old  *)
(* place in the ring without e: t.prev = e, e.next = t and e.prev is the   *)
(* former predecessor of t.                                                *)

C17_BackwardRelocation ==
    [][(/\ Relocation
        /\ N >= 2
        /\ I64IsNeg(nodes[mix_i].value)
        /\ StepsOf(nodes, mix_i) >= 1)
       => LET e == mix_i
              t == SkipPrevHops(nodes, e, StepsOf(nodes, e))
          IN  /\ nodes'[t].prev = e
              /\ nodes'[e].next = t
              /\ nodes'[e].prev = SkipPrev(nodes, e, t)]_vars

---------------------------------------------------------------------------
(* C18  A single relocation keeps the cyclic order of the other N - 1      *)
(* elements: walking next links while skipping the relocated element       *)
(* gives the same cyclic sequence before and after the relocation, for     *)
(* every value including the multiples of N - 1 (stated for a ring that    *)
(* is a single cycle before the relocation).                               *)

C18_OthersKeepOrder ==
    [][(Relocation /\ N >= 2 /\ SingleCycle(nodes))
       => OthersNext(nodes', mix_i) = OthersNext(nodes, mix_i)]_vars

---------------------------------------------------------------------------
(* C19  Order of a round: a call of mix starts at array index 0, each of   *)
(* its iterations processes the element at array index mix_i (whatever its *)
(* place in the ring has become) and moves on to index mix_i + 1, and the  *)
(* call returns only from index N: every element has its turn exactly once *)
(* per round, in input order.                                              *)

\* What a turn does to the ring when it processes the element e: nothing
\* for a zero value; otherwise e is unlinked and re-linked beside the
\* element |value| mod (N - 1) hops away.
TurnOf(ns, e) ==
    IF ns[e].value = I64Zero THEN ns
    ELSE IF ns[e].value.neg
         THEN MixStepLeft(ns, e, ns[e].value.mag)
         ELSE MixStepRight(ns, e, ns[e].value.mag)

C19_RoundStep ==
    /\ (pc # "mix" /\ pc' = "mix") => (mix_i' = 0 /\ nodes' = nodes)
    /\ (pc = "mix" /\ pc' = "mix") =>
          /\ mix_i < N
          /\ mix_i' = mix_i + 1
          /\ nodes[mix_i].i = mix_i
          /\ nodes' = TurnOf(nodes, mix_i)
    /\ (pc = "mix" /\ pc' = "ready") =>
          (mix_i = N /\ rounds' = rounds + 1 /\ nodes' = nodes)
    /\ (pc = "mix" /\ pc' = "panic") =>
          /\ N = 1 \/ nodes[mix_i].value = I64Min
          /\ rounds' = rounds
    /\ rounds' # rounds => (pc = "mix" /\ pc' = "ready")

C19_RoundInInputOrder ==
    [](pc = "mix" => mix_i \in 0 .. N) /\ [][C19_RoundStep]_vars

\* in the second round the turn has come to an element that is not at the
\* ring position of its index
C19_Witness ==
    /\ pc = "mix"
    /\ rounds = 1
    /\ N >= 3
    /\ SingleCycle(nodes)
    /\ mix_i \in 1 .. (N - 1)
    /\ WalkNext(nodes, zero, mix_i) # mix_i
    /\ WalkNext(nodes, 0, mix_i) # mix_i
    /\ nodes[mix_i].value # I64Zero

---------------------------------------------------------------------------
(* C20  The turn of a zero-valued element: when mix reaches an element     *)
(* whose value is 0, every prev and next link of the ring is the same      *)
(* immediately after the turn as immediately before it.                    *)

C20_ZeroTurnTouchesNothing ==
    [][(Relocation /\ nodes[mix_i].value = I64Zero)
       => Links(nodes') = Links(nodes)]_vars

\* the turn of a zero-valued element has just passed in a round that has
\* already reordered the ring
C20_Witness ==
    /\ pc = "mix"
    /\ N >= 3
    /\ mix_i >= 2
    /\ nodes[mix_i - 1].value = I64Zero
    /\ Links(nodes) # Links(pre)
    /\ SingleCycle(nodes)

---------------------------------------------------------------------------
(* Vocabulary of the properties of day_3.rs. *)

\* The 52 item letters in alphabetical order, a .. z then A .. Z, as bytes.
Letters ==
    <<97, 98, 99, 100, 101, 102, 103, 104, 105, 106, 107, 108, 109,
      110, 111, 112, 113, 114, 115, 116, 117, 118, 119, 120, 121, 122,
      65, 66, 67, 68, 69, 70, 71, 72, 73, 74, 75, 76, 77,
      78, 79, 80, 81, 82, 83, 84, 85, 86, 87, 88, 89, 90>>

IsLetter(b) == \E p \in 1 .. Len(Letters) : Letters[p] = b

\* The alphabetical position of a letter.
Position(b) == CHOOSE p \in 1 .. Len(Letters) : Letters[p] = b

AllLetters(items) == \A j \in 1 .. Len(items) : IsLetter(items[j])

ItemsOf(items) == {items[j] : j \in 1 .. Len(items)}

Reversed(items) == [j \in 1 .. Len(items) |-> items[Len(items) + 1 - j]]

---------------------------------------------------------------------------
(* C13  to_points gives every letter its alphabetical position, a .. z     *)
(* being 1 .. 26 and A .. Z being 27 .. 52 (a -> 1, z -> 26, A -> 27,      *)
(* Z -> 52): the result lies in 1 .. 52, no other letter has the same      *)
(* points, and a letter never reaches unreachable!().                      *)

C13_ToPointsIsPosition ==
    (Len(day3.items) = 1 /\ IsLetter(day3.items[1])) =>
        /\ day3.op # "panic"
        /\ day3.op = "to_points" =>
              /\ day3.points \in 1 .. 52
              /\ Letters[day3.points] = day3.items[1]
              /\ \A p \in 1 .. 52 :
                     ToPoints(Letters[p]) = day3.points
                         => Letters[p] = day3.items[1]
              /\ day3.items[1] = 97 => day3.points = 1
              /\ day3.items[1] = 122 => day3.points = 26
              /\ day3.items[1] = 65 => day3.points = 27
              /\ day3.items[1] = 90 => day3.points = 52

C13_Witness ==
    /\ day3.op = "to_points"
    /\ day3.items = <<90>>
    /\ day3.points = 52

---------------------------------------------------------------------------
(* C14  to_flags of a slice of letters returns the word in which bit p is  *)
(* set exactly when some item of the slice has p points; bit 0 and the     *)
(* bits above 52 are never set, and the slice in reverse order or repeated *)
(* gives the same word.                                                    *)

C14_ToFlagsMarksPoints ==
    (day3.op = "to_flags" /\ AllLetters(day3.items)) =>
        /\ \A p \in 0 .. 63 :
               p \in day3.flags <=>
                   \E j \in 1 .. Len(day3.items) :
                       Position(day3.items[j]) = p
        /\ day3.flags \subseteq 1 .. 52
        /\ ToFlags(Reversed(day3.items)) = day3.flags
        /\ ToFlags(day3.items \o day3.items) = day3.flags
        /\ day3.items = Day3TestA => day3.flags = {1}
        /\ day3.items = Day3TestAbcABC => day3.flags = {1, 2, 3, 27, 28, 29}

\* the word of a slice with a repeated letter and letters of both cases,
\* not in order of points
C14_Witness ==
    /\ day3.op = "to_flags"
    /\ day3.items = <<90, 97, 90, 98>>
    /\ day3.flags = {1, 2, 52}

---------------------------------------------------------------------------
(* C15  check_for_p1_errors on a line of letters of even length whose      *)
(* first and second half share exactly one item type returns the points    *)
(* (1 .. 52) of that item type.                                            *)

C15_SharedItemPoints ==
    (/\ day3.op = "check_for_p1_errors"
     /\ AllLetters(day3.items)
     /\ Len(day3.items) % 2 = 0) =>
        LET half == Len(day3.items) \div 2
            left == {day3.items[j] : j \in 1 .. half}
            right == {day3.items[j] : j \in (half + 1) .. Len(day3.items)}
        IN  Cardinality(left \cap right) = 1 =>
                /\ day3.priority \in 1 .. 52
                /\ Letters[day3.priority] \in left \cap right

\* a line of four items whose shared item type is neither the first item
\* nor the one of the fewest points
C15_Witness ==
    /\ day3.op = "check_for_p1_errors"
    /\ day3.items = <<97, 90, 90, 98>>
    /\ day3.priority = 52

---------------------------------------------------------------------------
(* C21  The ring as built: when Mixer::new has returned a ring of N        *)
(* elements and no relocation has been made yet, element i holds the i-th  *)
(* input value, its prev is (i - 1 + N) mod N and its next is              *)
(* (i + 1) mod N, so that j next-hops from element 0 lead to element j     *)
(* and N next-hops lead back to it.                                        *)

\* No relocation has been made since Mixer::new returned.
FreshlyBuilt ==
    /\ pc \in {"ready", "mix"}
    /\ rounds = 0
    /\ pc = "mix" => mix_i = 0

C21_BuiltInInputOrder ==
    FreshlyBuilt =>
        /\ N = Len(Numbers)
        /\ \A e \in DOMAIN nodes :
               /\ nodes[e].value = Numbers[e + 1]
               /\ nodes[e].prev = (e - 1 + N) % N
               /\ nodes[e].next = (e + 1) % N
               /\ NextHops(nodes, 0, e) = e
        /\ N >= 1 => NextHops(nodes, 0, N) = 0

\* a ring of three different values as built, closed from the last element
\* to the first
C21_Witness ==
    /\ FreshlyBuilt
    /\ pc = "ready"
    /\ N = 3
    /\ nodes[2].next = 0
    /\ nodes[0].prev = 2
    /\ nodes[1].prev = 0
    /\ Cardinality({nodes[e].value : e \in DOMAIN nodes}) = 3

---------------------------------------------------------------------------
(* C22  The anchor: for an input with exactly one zero value, at whatever  *)
(* index (index 0 included), Mixer::new does not fail and records the      *)
(* index of that value as the anchor, and in every later state, inside and *)
(* after any number of mix rounds, the anchor is the index of the          *)
(* zero-valued element.                                                    *)

C22_AnchorIsTheZero ==
    (Cardinality(ZerosOf(Numbers)) = 1 /\ pc # "start") =>
        /\ panic # "new"
        /\ zero + 1 \in ZerosOf(Numbers)
        /\ zero \in DOMAIN nodes
        /\ nodes[zero].value = I64Zero
        /\ \A e \in DOMAIN nodes : nodes[e].value = I64Zero => e = zero

\* after a round that has reordered the ring the anchor is the only zero,
\* which was not the first input value
C22_Witness ==
    /\ Cardinality(ZerosOf(Numbers)) = 1
    /\ pc = "ready"
    /\ rounds >= 1
    /\ N >= 3
    /\ zero >= 1
    /\ nodes[zero].value = I64Zero
    /\ Links(nodes) # Links(MixerNewNodes(Numbers))

---------------------------------------------------------------------------
(* C23  The hop count of a relocation: for a ring of N >= 2 elements and   *)
(* every non-zero i64 value v of the element whose turn it is, i64::MIN    *)
(* included, the turn does not abort and walks exactly |v| mod (N - 1)     *)
(* hops.  The code negates a negative value before the conversion to       *)
(* usize, which overflows for i64::MIN and panics in a build that checks   *)
(* overflow.                                                               *)

C23_HopsAreAbsModulo ==
    [][(/\ pc = "mix"
        /\ mix_i < N
        /\ N >= 2
        /\ nodes[mix_i].value # I64Zero)
       => (Relocation /\ hops' = StepsOf(nodes, mix_i))]_vars

---------------------------------------------------------------------------
(* C24  Termination of a round: on a ring of N >= 2 elements a relocation  *)
(* walks at most N - 2 hops, whatever the value, and a call of mix makes   *)
(* at most N turns: the index of the turn is never above N, every step     *)
(* inside the call takes the next index or leaves the call, so N - mix_i   *)
(* decreases until the call returns at N.  A call of get_at_index walks at *)
(* most N - 1 hops.                                                        *)

C24_WalksAreBounded ==
    /\ pc = "mix" => mix_i \in 0 .. N
    /\ (N >= 2 /\ last_k = -1 /\ pc # "start") => hops \in -1 .. (N - 2)
    /\ last_k >= 0 => hops \in 0 .. (N - 1)

C24_TurnsAdvance ==
    pc = "mix" => (pc' # "mix" \/ (mix_i < N /\ mix_i' = mix_i + 1))

C24_RoundTerminates ==
    []C24_WalksAreBounded /\ [][C24_TurnsAdvance]_vars

\* a round of three elements has returned after a relocation that walked
\* the most hops there are, N - 2, and one whose value exceeds every count
C24_Witness ==
    /\ pc = "ready"
    /\ rounds >= 1
    /\ N = 3
    /\ last_k = -1
    /\ hops = N - 2
    /\ \E e \in DOMAIN nodes : nodes[e].value = I64Min

---------------------------------------------------------------------------
(* C26  prev and next are mutual inverses: in every state of a built ring  *)
(* (after Mixer::new and after every complete relocation) every element e  *)
(* has nodes[nodes[e].next].prev = e and nodes[nodes[e].prev].next = e,    *)
(* and for N >= 2 no element is its own prev or next.  The code leaves an  *)
(* element that it relocates by steps = 0 linked to itself.                *)

C26_LinksAreInverse ==
    Built =>
        \A e \in DOMAIN nodes :
            /\ nodes[nodes[e].next].prev = e
            /\ nodes[nodes[e].prev].next = e
            /\ N >= 2 => (nodes[e].next # e /\ nodes[e].prev # e)

---------------------------------------------------------------------------
(* C27  Uniqueness of the zero: for every input with two or more zero      *)
(* values, wherever they are, Mixer::new panics on assert!(zero == 0), so  *)
(* a built ring never has more than one zero-valued element.  The          *)
(* assertion compares the anchor with its initial value 0 and so passes    *)
(* when the only earlier zero is at index 0.                               *)

C27_DuplicateZeroRejected ==
    /\ (Cardinality(ZerosOf(Numbers)) >= 2 /\ pc # "start") =>
           (pc = "panic" /\ panic = "new")
    /\ Built =>
           Cardinality({e \in DOMAIN nodes : nodes[e].value = I64Zero}) <= 1

---------------------------------------------------------------------------
(* C28  Direction symmetry: in every state of a built ring with N >= 3,    *)
(* for every element e and every s in 1 .. N - 2, mix_step_right of e by s *)
(* and mix_step_left of e by N - 1 - s give the same ring (the same prev   *)
(* and next of every element); and in either direction two counts that     *)
(* are congruent modulo N - 1 give the same ring.                          *)

\* Counts up to two turns of the ring without the relocated element.
CountsOf(ns) == 0 .. (2 * (NodesLen(ns) - 1) + 1)

C28_DirectionSymmetry ==
    (Built /\ N >= 3) =>
        \A e \in DOMAIN nodes :
            /\ \A s \in 1 .. (N - 2) :
                   MixStepRight(nodes, e, MagOf(s))
                       = MixStepLeft(nodes, e, MagOf(N - 1 - s))
            /\ \A v, w \in CountsOf(nodes) :
                   v % (N - 1) = w % (N - 1) =>
                       /\ MixStepRight(nodes, e, MagOf(v))
                              = MixStepRight(nodes, e, MagOf(w))
                       /\ MixStepLeft(nodes, e, MagOf(v))
                              = MixStepLeft(nodes, e, MagOf(w))

---------------------------------------------------------------------------
(* C25  append_and_detect returns true exactly when at least L letters     *)
(* have been appended and the L most recently appended letters are         *)
(* pairwise distinct, for every sequence of letters (L = 4).               *)

\* The last n elements of a sequence of at least n elements.
LastOf(seq, n) == SubSeq(seq, Len(seq) - n + 1, Len(seq))

PairwiseDistinct(seq) ==
    \A j, k \in 1 .. Len(seq) : seq[j] = seq[k] => j = k

C25_DetectsUniqueFrame ==
    day6.op = "append" =>
        (day6.detected <=>
            /\ Len(day6.appended) >= FrameLen
            /\ PairwiseDistinct(LastOf(day6.appended, FrameLen)))

\* a frame of distinct letters is detected after a frame with a duplicate
\* has passed, the letter that was duplicated being in the frame again
C25_Witness ==
    /\ day6.op = "append"
    /\ day6.detected
    /\ Len(day6.appended) = 6
    /\ day6.appended[1] = day6.appended[2]
    /\ day6.appended[6] = day6.appended[1]
    /\ day6.appended[6] = 26

---------------------------------------------------------------------------
(* C29  The rope: after every step of the head every following knot is     *)
(* within distance 1 of its parent in both axes (its offset_to_head being  *)
(* the parent's position minus its own); in a step a knot moves by at most *)
(* 1 in each axis, and it does not move when its parent is, after the      *)
(* step, still within distance 1 of the place where the knot was.  The     *)
(* parent of the first knot is the head, that of knot k is knot k - 1,     *)
(* whose moves can be diagonal.                                            *)

\* The position of the parent of knot k in the rope d.
ParentOf(d, k) == IF k = 1 THEN d.head ELSE d.knots[k - 1].curr

Abs(x) == IF x < 0 THEN -x ELSE x

\* p and q are within distance 1 in both axes.
Near(p, q) == Abs(p[1] - q[1]) <= 1 /\ Abs(p[2] - q[2]) <= 1

C29_KnotsStayNear ==
    \A k \in DOMAIN day9.knots :
        /\ Near(ParentOf(day9, k), day9.knots[k].curr)
        /\ day9.knots[k].offset_to_head =
               <<ParentOf(day9, k)[1] - day9.knots[k].curr[1],
                 ParentOf(day9, k)[2] - day9.knots[k].curr[2]>>

C29_KnotsStep ==
    \A k \in DOMAIN day9.knots :
        /\ Near(day9'.knots[k].curr, day9.knots[k].curr)
        /\ Near(ParentOf(day9', k), day9.knots[k].curr) =>
               day9'.knots[k].curr = day9.knots[k].curr

C29_RopeFollows == []C29_KnotsStayNear /\ [][C29_KnotsStep]_vars

IsDiagonal(delta) == delta[1] # 0 /\ delta[2] # 0

\* in the rope of nine knots, of which the first four have moved, knot 2
\* has just moved diagonally after a diagonal move of its parent, and
\* knot 3 has stayed where it was
C29_Witness ==
    /\ day9.op = "rope"
    /\ DOMAIN day9.knots = 1 .. 9
    /\ IsDiagonal(day9.knots[1].tail_delta)
    /\ IsDiagonal(day9.knots[2].tail_delta)
    /\ day9.knots[3].tail_delta = <<0, 0>>
    /\ day9.knots[2].curr # <<0, 0>>
    /\ day9.knots[4].curr # <<0, 0>>

---------------------------------------------------------------------------
(* C30  The dispatcher: problem k of day d is run if and only if (no day   *)
(* flag was given or the flag of day d was given) and (neither --p1 nor    *)
(* --p2 was given or the flag of problem k was given); the runs happen in  *)
(* the order of registration of the days, problem 1 before problem 2, each *)
(* once; with the example option EXAMPLE is set before the first problem   *)
(* runs, and EXAMPLE is never cleared.  At every moment the problems run   *)
(* so far are the selected ones of the blocks already passed, and at the   *)
(* end of `run` they are all the selected ones.                            *)

Chosen(args, d, k) ==
    /\ args.days = {} \/ d \in args.days
    /\ (~args.problem_1 /\ ~args.problem_2)
           \/ (k = 1 /\ args.problem_1)
           \/ (k = 2 /\ args.problem_2)

\* All problems in the order of registration, as <<place, day, problem>>.
AllProblems ==
    [j \in 1 .. (2 * Len(RegisteredDays)) |->
        <<(j + 1) \div 2, RegisteredDays[(j + 1) \div 2], 2 - (j % 2)>>]

\* The chosen problems of the places before (day, problem), in order.
ChosenBefore(args, day, problem) ==
    LET Test(r) ==
            /\ Chosen(args, r[2], r[3])
            /\ r[1] < day \/ (r[1] = day /\ r[3] < problem)
    IN  SelectSeq(AllProblems, Test)

RanProblems ==
    [j \in 1 .. Len(cli.ran) |->
        <<cli.ran[j].day, cli.ran[j].problem>>]

DayAndProblem(rs) == [j \in 1 .. Len(rs) |-> <<rs[j][2], rs[j][3]>>]

C30_RunsAreTheChosen ==
    /\ cli.pc = "days" =>
           RanProblems =
               DayAndProblem(ChosenBefore(cli.args, cli.day, cli.problem))
    /\ cli.pc = "done" =>
           RanProblems =
               DayAndProblem(ChosenBefore(cli.args,
                                          Len(RegisteredDays) + 1, 1))
    /\ cli.pc = "panic" =>
           /\ cli.ran # <<>>
           /\ RanProblems =
               DayAndProblem(ChosenBefore(cli.args, cli.day,
                                          cli.problem + 1))
    /\ (cli.args.example /\ cli.ran # <<>>) => cli.EXAMPLE
    /\ \A j \in 1 .. Len(cli.ran) : cli.ran[j].example = cli.args.example

C30_ExampleStaysSet == cli.EXAMPLE => cli'.EXAMPLE

C30_Dispatch == []C30_RunsAreTheChosen /\ [][C30_ExampleStaysSet]_vars

\* `run` has returned after the example variant of problem 2 of two days,
\* given in the flags together with --p2 and the example option
C30_Witness ==
    /\ cli.pc = "done"
    /\ cli.args.days = {3, 17}
    /\ cli.args.problem_2
    /\ ~cli.args.problem_1
    /\ cli.args.example
    /\ cli.EXAMPLE
    /\ Len(cli.ran) = 2
    /\ cli.ran[1].day = 3
    /\ cli.ran[2].day = 17
    /\ cli.ran[2].problem = 2

===========================================================================
